---- MODULE Spec2Model ----
(***************************************************************************)
(* Model of the ChatterBox service manager (src/chatterbox_manager.py):    *)
(* the PID file, the OS process table, the /health endpoint and the        *)
(* supervisor operations is_service_running, wait_for_service,             *)
(* start_service, stop_service, restart_service, status, ensure_running.   *)
(*                                                                         *)
(* One invocation of the manager is one short-lived OS process running one *)
(* command; it is modelled as a record with a program counter.  Between    *)
(* two steps of an invocation the environment may act: service processes   *)
(* exit, other processes appear (PID reuse), the health endpoint changes.  *)
(* log() (lines 24-32) only prints and appends to the activity log; it is  *)
(* not part of the modelled state.                                         *)
(***************************************************************************)
EXTENDS Integers, Sequences, FiniteSets, TLC

VARIABLES
    pidFile,   \* PID_FILE (line 18): [exists, text]
    procs,     \* the OS process table: pid -> kind of process
    health,    \* what GET SERVICE_URL/health currently answers
    inv,       \* the manager invocations: id -> control state and locals
    fs,        \* the fault of the file system, if any (see FsStates)
    hook,      \* one run of a notification hook script (see HookIdle)
    tts,       \* one request to tts_service.py (see TtsIdle)
    spk,       \* NotificationSpeaker of notification_speaker.py (see SpkOff)
    obs        \* NotificationObserver of notification_reader.py (see ObsOff)

\* the programs around the manager
hookVars == <<hook, tts, spk, obs>>
vars == <<pidFile, procs, health, inv, fs, hookVars>>

----------------------------------------------------------------------------
(* Bounds and program constants                                            *)

MaxPid == 2                 \* pids are 1..MaxPid
MaxIds == 2        \* notification ids that the log stream can report
MaxChildren == 2   \* 'log stream' children that can be alive at once

TicksPerSecond == 2         \* model time unit: time.sleep(0.5) is one tick
WAIT_TIMEOUT == 30          \* wait_for_service(timeout=30), seconds
POLL_REQUEST_TIMEOUT == 1   \* requests.get(..., timeout=1) in the poll, seconds
SLEEP_TICKS == 1            \* time.sleep(0.5) between two polls, in ticks

WaitTimeoutTicks == WAIT_TIMEOUT * TicksPerSecond
PollRequestTicks == POLL_REQUEST_TIMEOUT * TicksPerSecond

PIDS == 1..MaxPid
SeqInvs == {"a"}            \* invocations that run one after another
Invs == {"a", "b"}          \* all invocation slots

Healths == {"down", "err", "loading", "ready"}
    \* down: no answer (exception); err: non-200 answer;
    \* loading: 200, model_loaded false; ready: 200, model_loaded true
ProcKinds == {"none", "svc", "foreign", "priv"}
    \* none: no such process; svc: command line holds 'tts_service.py';
    \* foreign: some other program of this user; priv: a process of another
    \* user (cmdline() raises AccessDenied, os.kill raises PermissionError)

FsStates == {"ok", "log_unwritable", "pid_unwritable", "pid_unreadable"}
    \* ok: every file operation works; log_unwritable: open(LOG_FILE, 'a')
    \* raises OSError; pid_unwritable: PID_FILE.write_text raises;
    \* pid_unreadable: PID_FILE.read_text raises

LogOK == fs # "log_unwritable"
PidWritable == fs # "pid_unwritable"
PidReadable == fs # "pid_unreadable"

Scripts == {"autostart", "chatterbox"}
HookTypes == {"SessionStart", "Notification", "Stop", "SubagentStop",
              "PreCompact", "unknown"}
StdinKinds == {"tty", "empty", "malformed", "object", "message",
               "badmessage", "array"}
    \* tty: no input (isatty); empty: ""; malformed: not JSON; object: a JSON
    \* object without "message"; message: one whose "message" is a string;
    \* badmessage: one whose "message" is not a string; array: valid JSON
    \* that is not an object
Outcomes == {"ok", "http_error", "timeout", "exception"}
    \* of a request: 200, another status, requests.Timeout, another exception
ElevenOutcomes == Outcomes \cup {"no_key"}
HookRunner == "a"   \* the manager invocation that a hook runs as a subprocess

SERVICE_CHECK_INTERVAL == 30   \* seconds, notification_reader.py line 104
Ids == 1..MaxIds
MonitorPaths ==
    {"popen_fails", "no_line", "eof", "not_json", "no_event", "read_fails",
     "unparsed", "notification"}
    \* popen_fails: Popen raises; no_line: select times out; eof: readline
    \* returns ''; not_json: json.loads raises; no_event: no eventMessage
    \* key; read_fails: select or readline raises; unparsed:
    \* parse_log_notification returns None; notification: it returns one
Unterminated == {"read_fails", "unparsed", "notification"}
    \* the paths that leave monitor_notification_db() before or around
    \* process.terminate() of line 166

Endpoints == {"synthesize", "speak", "elevenlabs"}
TextKinds == {"missing", "empty", "text"}
Faults == {"none", "generate", "save", "play", "ffmpeg"}
    \* generate: model.generate raises; save: torchaudio.save raises;
    \* play: afplay fails; ffmpeg: the conversion fails or ffmpeg is missing

Is200(h) == h \in {"loading", "ready"}
Raises(h) == h = "down"
ModelLoaded(h) == h = "ready"

----------------------------------------------------------------------------
(* str(pid) and int(text.strip())                                          *)

Digits == <<"0", "1", "2", "3", "4", "5", "6", "7", "8", "9">>

DigitVal(c) == (CHOOSE k \in 1..10 : Digits[k] = c) - 1
IsDigit(c) == \E k \in 1..10 : Digits[k] = c
IsSpace(c) == c \in {" ", "\n"}

\* str(pid) with the digit table indexed from 0 as in Python
IntToStr_Mut(n) == <<Digits[n]>>

RECURSIVE IntToStr(_)
IntToStr(n) ==
    IF n < 10 THEN <<Digits[n + 1]>>
    ELSE IntToStr(n \div 10) \o <<Digits[(n % 10) + 1]>>

RECURSIVE Strip(_)
Strip(s) ==
    IF s = <<>> THEN s
    ELSE IF IsSpace(Head(s)) THEN Strip(Tail(s))
    ELSE IF IsSpace(s[Len(s)]) THEN Strip(SubSeq(s, 1, Len(s) - 1))
    ELSE s

RECURSIVE DecVal(_)
DecVal(s) ==
    IF s = <<>> THEN 0
    ELSE 10 * DecVal(SubSeq(s, 1, Len(s) - 1)) + DigitVal(s[Len(s)])

\* int(text.strip()): ok is FALSE where Python raises ValueError
ParseInt(text) ==
    LET s == Strip(text) IN
    IF s # <<>> /\ \A k \in 1..Len(s) : IsDigit(s[k])
    THEN [ok |-> TRUE, val |-> DecVal(s)]
    ELSE [ok |-> FALSE, val |-> 0]

NoFile == [exists |-> FALSE, text |-> <<>>]
FileWith(t) == [exists |-> TRUE, text |-> t]

\* what may be found in the PID file when an invocation starts
FileContents ==
    {<<"1", "x">>} \cup {IntToStr(p) : p \in PIDS}
                   \cup {IntToStr(p) \o <<"\n">> : p \in PIDS}

----------------------------------------------------------------------------
(* Invocations                                                             *)

\* An invocation that has not been started (or has exited).
\*   op      the command: is_running, start, stop, restart, status, ensure
\*   pc      the place in the code the invocation is at
\*   caller  who called is_service_running(): top, ensure, start, status
\*   pid     the local `pid` parsed from the PID file
\*   ret     what the last is_service_running() returned
\*   result  what the command returned: True, False, None, or raised
\*   proc    process.pid of the process this invocation spawned (0: none)
\*   elapsed time.time() - start_time of wait_for_service, in ticks
\* and what the invocation has seen and done so far:
\*   pidCase, tracked, direct   in the current is_service_running(): what
\*           the PID file named, and the answers of the probe of line 48
\*           and of the probe of line 63
\*   sawReady a poll of wait_for_service saw 200 with model_loaded
\*   sawFail / saw200  some probe of is_service_running() got no 200 / 200
\*   noRecord the PID file was absent when the command was called
\*   stopRet what stop_service() returned
\*   ev      the signals, spawns and PID writes of the invocation, in order
Idle ==
    [op |-> "-", pc |-> "idle", caller |-> "-", pid |-> 0, ret |-> "-",
     result |-> "-", proc |-> 0, elapsed |-> 0,
     pidCase |-> "-", tracked |-> "-", direct |-> "-",
     sawReady |-> FALSE, sawFail |-> FALSE, saw200 |-> FALSE,
     noRecord |-> FALSE, stopRet |-> "-", ev |-> <<>>]

\* One run of a notification hook script (notify_autostart.py or
\* notify_chatterbox.py):
\*   pc            where main() is
\*   script        which of the two scripts runs
\*   hookType      CLAUDE_HOOK_TYPE
\*   stdin         what standard input holds (see StdinKinds)
\*   useChatterbox USE_CHATTERBOX (notify_chatterbox.py)
\*   ensured       what ensure_chatterbox_running() returned
\*   message       "event": the message of the event; "default": a built-in
\*   cb, el        what speak_with_chatterbox / speak_with_elevenlabs returned
\*   exit          the exit status of the script
\*   ev            what the run has done, in order
HookIdle ==
    [pc |-> "idle", script |-> "-", hookType |-> "-", stdin |-> "-",
     useChatterbox |-> TRUE, ensured |-> "-", message |-> "-",
     cb |-> "-", el |-> "-", exit |-> "-", ev |-> <<>>]

\* One request to tts_service.py:
\*   pc          idle, responded (the response is out), finished (the
\*               background tasks have run)
\*   endpoint    synthesize, speak, elevenlabs
\*   text        what the request holds as text (see TextKinds)
\*   loaded      the global `model` is set
\*   play, returnAudio   the fields of the request as the handler sees them
\*   fault       what fails while the request is served (see Faults)
\*   status      the HTTP status of the response
\*   body        "file": an audio file; "path": the path of one; "status"
\*   files       the temporary files that exist
\*   tasks       the files that a background task will remove
\*   attempted, played   afplay was run / ended with status 0
TtsIdle ==
    [pc |-> "idle", endpoint |-> "-", text |-> "-", loaded |-> TRUE,
     play |-> TRUE, returnAudio |-> FALSE, fault |-> "-", status |-> 0,
     body |-> "-", files |-> {}, tasks |-> {},
     attempted |-> FALSE, played |-> FALSE]

\* what monitor_notification_db() returned: id 0 stands for None
NoNotif == [id |-> 0, ignored |-> FALSE]

\* NotificationSpeaker:
\*   pc        off, loop (line 206), got (line 210: monitor_notification_db
\*             has returned), stopped
\*   spoken    self.spoken_ids
\*   failed    the ids whose speak request failed at some time
\*   children  the 'log stream' subprocesses that are alive
\*   notif     the notification at hand: its id, and whether its app is
\*             one of IGNORED_APPS
\*   posted, ok   the last turn of the loop sent a /speak request / the
\*             request returned True
SpkOff ==
    [pc |-> "off", spoken |-> {}, failed |-> {}, children |-> 0,
     notif |-> NoNotif, posted |-> FALSE, ok |-> FALSE]
\* NotificationObserver:
\*   pc         off, on (the run loop of line 244), exited (line 223)
\*   available  self.service_available
\*   since      the whole seconds since self.last_service_check, counted
\*              up to SERVICE_CHECK_INTERVAL + 1
\*   turn       flips with every call of speak_text()
\*   checked, reopened, posted, outcome, ok   the last call of speak_text()
\*              ran check_service() / found the gate closed and opened it /
\*              sent a /speak request / how the request ended / returned
\*              True
\*   raised     some /speak request has raised
ObsOff ==
    [pc |-> "off", available |-> FALSE, since |-> 0, turn |-> 0,
     checked |-> FALSE, reopened |-> FALSE, posted |-> FALSE,
     outcome |-> "-", ok |-> FALSE, raised |-> FALSE]

Ops == {"is_running", "start", "stop", "restart", "status", "ensure"}

Set(i, r) == inv' = [inv EXCEPT ![i] = r]

\* entering is_service_running() (line 34) on behalf of `who`
EnterIsr(r, who) ==
    [r EXCEPT !.pc = "isr_exists", !.caller = who, !.pid = 0, !.ret = "-",
              !.pidCase = "-", !.tracked = "-", !.direct = "-"]

\* is_service_running() has returned and its caller goes on at `next`:
\* the locals of is_service_running() are gone
LeaveIsr(r, next) ==
    [r EXCEPT !.pc = next, !.caller = "-", !.pid = 0,
              !.pidCase = "-", !.tracked = "-", !.direct = "-"]

\* the command returns `v` (or raises) and the invocation is over
Finish(r, v) == [r EXCEPT !.pc = "done", !.result = v]

\* log(message), lines 24-32, followed by `next`: when the activity log
\* cannot be opened, the OSError of line 31 ends the command, since no
\* caller of log() outside is_service_running() catches it for good (in
\* stop_service line 153 catches it and line 154 logs again)
LogThen(r, next) == IF LogOK THEN next ELSE Finish(r, "raised")

Init ==
    /\ pidFile = NoFile
    /\ procs = [p \in PIDS |-> "none"]
    /\ health = "down"
    /\ inv = [i \in Invs |-> Idle]
    /\ fs = "ok"
    /\ hook = HookIdle
    /\ tts = TtsIdle
    /\ spk = SpkOff
    /\ obs = ObsOff

\* __main__ (lines 198-207): run one command
Call(i, o) ==
    /\ inv[i].pc = "idle"
    /\ LET r == [Idle EXCEPT !.op = o, !.noRecord = ~pidFile.exists] IN
       Set(i, CASE o = "is_running" -> EnterIsr(r, "top")
                [] o = "start"      -> EnterIsr(r, "start")
                [] o = "ensure"     -> EnterIsr(r, "ensure")
                [] o = "status"     -> EnterIsr(r, "status")
                [] o = "stop"       -> [r EXCEPT !.pc = "stop_exists"]
                [] OTHER            ->
                     LogThen(r, [r EXCEPT !.pc = "stop_exists"]))
    /\ UNCHANGED <<pidFile, procs, health, fs, hookVars>>

----------------------------------------------------------------------------
(* is_service_running(), lines 34-70                                       *)

\* line 37: if PID_FILE.exists()
IsrExists(i) ==
    /\ inv[i].pc = "isr_exists"
    /\ Set(i, IF pidFile.exists
              THEN [inv[i] EXCEPT !.pc = "isr_read"]
              ELSE [inv[i] EXCEPT !.pc = "isr_direct", !.pidCase = "nofile"])
    /\ UNCHANGED <<pidFile, procs, health, fs, hookVars>>

\* a record that cannot be read or parsed answers "not running" at once,
\* and stays
IsrRead_Mut(i) ==
    /\ inv[i].pc = "isr_read"
    /\ LET n == ParseInt(pidFile.text) IN
       Set(i, IF pidFile.exists /\ PidReadable /\ n.ok
              THEN [inv[i] EXCEPT !.pc = "isr_pid_exists", !.pid = n.val]
              ELSE [inv[i] EXCEPT !.pc = "isr_ret", !.pidCase = "corrupt",
                                  !.ret = "False",
                                  !.ev = Append(@, "corrupt")])
    /\ UNCHANGED <<pidFile, procs, health, fs, hookVars>>

\* line 39: pid = int(PID_FILE.read_text().strip()); a file that is gone
\* raises FileNotFoundError, one that cannot be read PermissionError, bad
\* text raises ValueError: all go to line 59
IsrRead(i) ==
    /\ inv[i].pc = "isr_read"
    /\ LET n == ParseInt(pidFile.text) IN
       Set(i, IF pidFile.exists /\ PidReadable /\ n.ok
              THEN [inv[i] EXCEPT !.pc = "isr_pid_exists", !.pid = n.val]
              ELSE [inv[i] EXCEPT !.pc = "isr_unlink", !.pidCase = "corrupt",
                                  !.ev = Append(@, "corrupt")])
    /\ UNCHANGED <<pidFile, procs, health, fs, hookVars>>

\* psutil.pid_exists(pid)
PidExists(p) == p \in PIDS /\ procs[p] # "none"

\* a PID that names no process leaves its record behind
IsrPidExists_Mut(i) ==
    /\ inv[i].pc = "isr_pid_exists"
    /\ Set(i, IF PidExists(inv[i].pid)
              THEN [inv[i] EXCEPT !.pc = "isr_cmdline"]
              ELSE [inv[i] EXCEPT !.pc = "isr_direct", !.pidCase = "gone"])
    /\ UNCHANGED <<pidFile, procs, health, fs, hookVars>>

\* line 40: if psutil.pid_exists(pid); else line 57
IsrPidExists(i) ==
    /\ inv[i].pc = "isr_pid_exists"
    /\ Set(i, IF PidExists(inv[i].pid)
              THEN [inv[i] EXCEPT !.pc = "isr_cmdline"]
              ELSE [inv[i] EXCEPT !.pc = "isr_unlink", !.pidCase = "gone"])
    /\ UNCHANGED <<pidFile, procs, health, fs, hookVars>>

\* lines 43-45 and 54: what psutil.Process(pid).cmdline() shows of the pid
\*   ours: 'tts_service.py' in cmdline; foreign: it is not;
\*   denied: AccessDenied; gone: NoSuchProcess (it exited since line 40)
CmdlineCase(p) ==
    CASE ~PidExists(p)       -> "gone"
      [] procs[p] = "svc"    -> "ours"
      [] procs[p] = "priv"   -> "denied"
      [] OTHER               -> "foreign"

\* any live process with a readable command line is taken for the service
SignatureMatches_Mut(c) == c \in {"ours", "foreign"}

\* line 45: if 'tts_service.py' in cmdline
SignatureMatches(c) == c = "ours"

IsrCmdline(i) ==
    /\ inv[i].pc = "isr_cmdline"
    /\ LET c == CmdlineCase(inv[i].pid) IN
       Set(i, [inv[i] EXCEPT !.pidCase = c,
                             !.pc = IF SignatureMatches(c) THEN "isr_health"
                                    ELSE "isr_unlink"])
    /\ UNCHANGED <<pidFile, procs, health, fs, hookVars>>

\* lines 47-53: the probe of the tracked service.  200: return True;
\* an exception: return False; any other answer leaves the try block and
\* reaches line 57
TrackedNext(h) ==
    IF Is200(h) THEN "true"
    ELSE IF Raises(h) THEN "false"
    ELSE "unlink"

IsrHealth(i) ==
    /\ inv[i].pc = "isr_health"
    /\ LET n == TrackedNext(health)
           r == [inv[i] EXCEPT !.tracked = health,
                               !.saw200 = @ \/ Is200(health),
                               !.sawFail = @ \/ ~Is200(health)] IN
       Set(i, CASE n = "true"  -> [r EXCEPT !.pc = "isr_ret", !.ret = "True"]
                [] n = "false" -> [r EXCEPT !.pc = "isr_ret", !.ret = "False"]
                [] OTHER       -> [r EXCEPT !.pc = "isr_unlink"])
    /\ UNCHANGED <<pidFile, procs, health, fs, hookVars>>

\* the stale record is left in place
IsrUnlink_Mut(i) ==
    /\ inv[i].pc = "isr_unlink"
    /\ Set(i, [inv[i] EXCEPT !.pc = "isr_direct"])
    /\ UNCHANGED <<pidFile, procs, health, fs, hookVars>>

\* line 57 or 59: PID_FILE.unlink().  When the file is gone, unlink raises
\* FileNotFoundError: raised at line 57 it is caught at line 58 and line 59
\* raises it again, outside any try
IsrUnlink(i) ==
    /\ inv[i].pc = "isr_unlink"
    /\ IF pidFile.exists
       THEN /\ pidFile' = NoFile
            /\ Set(i, [inv[i] EXCEPT !.pc = "isr_direct"])
       ELSE /\ pidFile' = pidFile
            /\ Set(i, Finish(inv[i], "raised"))
    /\ UNCHANGED <<procs, health, fs, hookVars>>

\* a service started by someone else is not recognised
DirectResult_Mut(h) == "False"

\* lines 62-70: the probe without a PID.  log() of line 65 is inside the
\* try: when it raises, line 67 swallows the error and line 70 returns False
DirectResult(h) == IF Is200(h) THEN "True" ELSE "False"

\* a service found by the probe without a PID is adopted: its PID is saved
IsrDirect_Mut(i) ==
    /\ inv[i].pc = "isr_direct"
    /\ Set(i, [inv[i] EXCEPT !.direct = health,
                             !.saw200 = @ \/ Is200(health),
                             !.sawFail = @ \/ ~Is200(health),
                             !.pc = "isr_ret",
                             !.ret = DirectResult(health)])
    /\ pidFile' = IF Is200(health) THEN FileWith(IntToStr(1)) ELSE pidFile
    /\ UNCHANGED <<procs, health, fs, hookVars>>

IsrDirect(i) ==
    /\ inv[i].pc = "isr_direct"
    /\ Set(i, [inv[i] EXCEPT !.direct = health,
                             !.saw200 = @ \/ Is200(health),
                             !.sawFail = @ \/ ~Is200(health),
                             !.pc = "isr_ret",
                             !.ret = IF Is200(health) /\ ~LogOK
                                     THEN "False"
                                     ELSE DirectResult(health)])
    /\ UNCHANGED <<pidFile, procs, health, fs, hookVars>>

\* is_service_running() returns inv[i].ret to its caller:
\*   __main__ has no command for it alone; "top" stands for a direct call
\*   ensure_running, lines 185-187; start_service, lines 89-93;
\*   status, lines 166 and 181
IsrReturn(i) ==
    /\ inv[i].pc = "isr_ret"
    /\ LET r == inv[i] IN
       Set(i, CASE r.caller = "top" -> Finish(r, r.ret)
                [] r.caller = "ensure" ->
                     IF r.ret = "True" THEN Finish(r, "True")
                     ELSE EnterIsr(r, "start")
                [] r.caller = "start" ->
                     IF r.ret = "True" THEN LogThen(r, Finish(r, "True"))
                     ELSE LogThen(r, LeaveIsr(r, "spawn"))
                [] OTHER ->
                     IF r.ret = "True" THEN LeaveIsr(r, "status_pid")
                     ELSE Finish(r, "None"))
    /\ UNCHANGED <<pidFile, procs, health, fs, hookVars>>

----------------------------------------------------------------------------
(* start_service(), lines 87-119, and wait_for_service(), lines 72-85      *)

\* the OSError of Popen is caught and turned into False
SpawnFailure_Mut(r) == Finish([r EXCEPT !.ev = Append(@, "spawn_failed")], "False")

\* lines 99-106: subprocess.Popen.  It either creates a service process
\* with a pid that is free, or raises OSError, which nothing in
\* start_service, ensure_running or restart_service catches
SpawnFailure(r) == Finish([r EXCEPT !.ev = Append(@, "spawn_failed")], "raised")

Spawn(i) ==
    /\ inv[i].pc = "spawn"
    /\ \/ \E p \in PIDS :
            /\ procs[p] = "none"
            /\ procs' = [procs EXCEPT ![p] = "svc"]
            /\ Set(i, [inv[i] EXCEPT !.pc = "save_pid", !.proc = p,
                                     !.ev = Append(@, "spawn")])
       \/ /\ procs' = procs
          /\ Set(i, SpawnFailure(inv[i]))
    /\ UNCHANGED <<pidFile, health, fs, hookVars>>

\* the first writer wins: a record that is there is not overwritten
SavePid_Mut(i) ==
    /\ inv[i].pc = "save_pid"
    /\ pidFile' = IF pidFile.exists THEN pidFile
                  ELSE FileWith(IntToStr(inv[i].proc))
    /\ Set(i, [inv[i] EXCEPT !.pc = "wait", !.elapsed = 0,
                             !.ev = Append(@, "save")])
    /\ UNCHANGED <<procs, health, fs, hookVars>>

\* line 109: PID_FILE.write_text(str(process.pid)), whose OSError nothing
\* catches; then wait_for_service() starts its clock (line 74)
SavePid(i) ==
    /\ inv[i].pc = "save_pid"
    /\ IF PidWritable
       THEN /\ pidFile' = FileWith(IntToStr(inv[i].proc))
            /\ Set(i, LogThen(inv[i],
                              [inv[i] EXCEPT !.pc = "wait", !.elapsed = 0,
                                             !.ev = Append(@, "save")]))
       ELSE /\ pidFile' = pidFile
            /\ Set(i, Finish(inv[i], "raised"))
    /\ UNCHANGED <<procs, health, fs, hookVars>>

\* the timeout in seconds compared with a clock in half seconds
WaitGoesOn_Mut(elapsed) == elapsed < WAIT_TIMEOUT

\* line 75: while time.time() - start_time < timeout
WaitGoesOn(elapsed) == elapsed < WaitTimeoutTicks

\* lines 78-81: the poll ends the wait
PollReady(h) == Is200(h) /\ ModelLoaded(h)

\* lines 75-84: one turn of the loop.  The request takes up to its timeout;
\* a ready answer returns True (line 81, then 115-116), any other answer
\* or an exception is followed by time.sleep(0.5)
WaitPoll(i) ==
    /\ inv[i].pc = "wait"
    /\ WaitGoesOn(inv[i].elapsed)
    /\ \E d \in 0..PollRequestTicks :
         Set(i, IF PollReady(health)
                THEN LogThen(inv[i],
                             Finish([inv[i] EXCEPT !.sawReady = TRUE,
                                                   !.elapsed = @ + d], "True"))
                ELSE [inv[i] EXCEPT !.elapsed = @ + d + SLEEP_TICKS])
    /\ UNCHANGED <<pidFile, procs, health, fs, hookVars>>

\* a start that timed out cleans up: the process is killed, the record removed
WaitExpire_Mut(i) ==
    /\ inv[i].pc = "wait"
    /\ ~WaitGoesOn(inv[i].elapsed)
    /\ Set(i, LogThen(inv[i], Finish(inv[i], "False")))
    /\ pidFile' = NoFile
    /\ procs' = [procs EXCEPT ![inv[i].proc] = "none"]
    /\ UNCHANGED <<health, fs, hookVars>>

\* lines 75 and 85, then 117-119: the timeout has passed, return False
WaitExpire(i) ==
    /\ inv[i].pc = "wait"
    /\ ~WaitGoesOn(inv[i].elapsed)
    /\ Set(i, LogThen(inv[i], Finish(inv[i], "False")))
    /\ UNCHANGED <<pidFile, procs, health, fs, hookVars>>

----------------------------------------------------------------------------
(* stop_service(), lines 121-155, and restart_service(), lines 157-162     *)

\* stop_service() returns v, after the log() of line 124, 136, 150 or 154:
\* the command is over, or restart_service goes on to its time.sleep(2)
\* (line 161)
StopReturns(r, v) ==
    LogThen(r, [r EXCEPT !.pc = "stop_ret", !.stopRet = v,
                         !.ev = Append(@, "stop_end")])

\* lines 123-125
\* stopping with no record counts as a success
StopExists_Mut(i) ==
    /\ inv[i].pc = "stop_exists"
    /\ Set(i, IF pidFile.exists
              THEN [inv[i] EXCEPT !.pc = "stop_read"]
              ELSE StopReturns(inv[i], "True"))
    /\ UNCHANGED <<pidFile, procs, health, fs, hookVars>>

StopExists(i) ==
    /\ inv[i].pc = "stop_exists"
    /\ Set(i, IF pidFile.exists
              THEN [inv[i] EXCEPT !.pc = "stop_read"]
              ELSE StopReturns(inv[i], "False"))
    /\ UNCHANGED <<pidFile, procs, health, fs, hookVars>>

\* lines 128-129; ValueError, FileNotFoundError and PermissionError are
\* caught at line 153
StopRead(i) ==
    /\ inv[i].pc = "stop_read"
    /\ LET n == ParseInt(pidFile.text) IN
       Set(i, IF pidFile.exists /\ PidReadable /\ n.ok
              THEN LogThen(inv[i],
                           [inv[i] EXCEPT !.pc = "stop_term", !.pid = n.val])
              ELSE StopReturns(inv[i], "False"))
    /\ UNCHANGED <<pidFile, procs, health, fs, hookVars>>

\* what os.kill(pid, sig) does: ProcessLookupError when there is no such
\* process, PermissionError when it is another user's, else the signal is
\* delivered
KillOutcome(p) ==
    CASE ~PidExists(p)     -> "lookup_error"
      [] procs[p] = "priv" -> "permission_error"
      [] OTHER             -> "delivered"

\* the process table after a delivered signal: the process exits at once,
\* or it is still there (SIGTERM ignored or handled slowly; SIGKILL on a
\* process that cannot be scheduled)
AfterSignal(p) == {procs, [procs EXCEPT ![p] = "none"]}

\* what follows a PermissionError of os.kill: it is an OSError, which
\* line 153 catches (IOError is OSError); line 155 returns False
OnPermissionError(r) == StopReturns(r, "False")

\* no graceful signal: a process that is there is killed at once
StopTerm_Mut(i) ==
    /\ inv[i].pc = "stop_term"
    /\ LET k == KillOutcome(inv[i].pid) IN
       CASE k = "lookup_error" ->
              Set(i, [inv[i] EXCEPT !.pc = "stop_unlink"])
         [] k = "permission_error" ->
              Set(i, OnPermissionError(inv[i]))
         [] OTHER ->
              Set(i, [inv[i] EXCEPT !.pc = "stop_kill"])
    /\ UNCHANGED <<pidFile, procs, health, fs, hookVars>>

\* lines 132-138: os.kill(pid, signal.SIGTERM)
StopTerm(i) ==
    /\ inv[i].pc = "stop_term"
    /\ LET k == KillOutcome(inv[i].pid) IN
       CASE k = "lookup_error" ->
              /\ procs' = procs
              /\ Set(i, [inv[i] EXCEPT !.pc = "stop_unlink"])
         [] k = "permission_error" ->
              /\ procs' = procs
              /\ Set(i, OnPermissionError(inv[i]))
         [] OTHER ->
              /\ procs' \in AfterSignal(inv[i].pid)
              /\ Set(i, [inv[i] EXCEPT !.pc = "stop_grace",
                                       !.ev = Append(@, "term")])
    /\ UNCHANGED <<pidFile, health, fs, hookVars>>

\* stop_service waits for the process to exit before it goes on
StopGrace_Mut(i) ==
    /\ inv[i].pc = "stop_grace"
    /\ ~PidExists(inv[i].pid)
    /\ Set(i, [inv[i] EXCEPT !.pc = "stop_unlink",
                             !.ev = Append(@, "grace")])
    /\ UNCHANGED <<pidFile, procs, health, fs, hookVars>>

\* line 134: time.sleep(2), then line 141: if psutil.pid_exists(pid)
StopGrace(i) ==
    /\ inv[i].pc = "stop_grace"
    /\ Set(i, [inv[i] EXCEPT !.pc = IF PidExists(inv[i].pid) THEN "stop_kill"
                                    ELSE "stop_unlink",
                             !.ev = Append(@, "grace")])
    /\ UNCHANGED <<pidFile, procs, health, fs, hookVars>>

\* lines 143-147: os.kill(pid, signal.SIGKILL); time.sleep(1)
StopKill(i) ==
    /\ inv[i].pc = "stop_kill"
    /\ LET k == KillOutcome(inv[i].pid) IN
       CASE k = "lookup_error" ->
              /\ procs' = procs
              /\ Set(i, [inv[i] EXCEPT !.pc = "stop_unlink"])
         [] k = "permission_error" ->
              /\ procs' = procs
              /\ Set(i, OnPermissionError(inv[i]))
         [] OTHER ->
              /\ procs' \in AfterSignal(inv[i].pid)
              /\ Set(i, [inv[i] EXCEPT !.pc = "stop_unlink",
                                       !.ev = Append(@, "kill")])
    /\ UNCHANGED <<pidFile, health, fs, hookVars>>

\* line 137 or 149: PID_FILE.unlink(), return True; a FileNotFoundError is
\* caught at line 153
StopUnlink(i) ==
    /\ inv[i].pc = "stop_unlink"
    /\ IF pidFile.exists
       THEN /\ pidFile' = NoFile
            /\ Set(i, StopReturns(inv[i], "True"))
       ELSE /\ pidFile' = pidFile
            /\ Set(i, StopReturns(inv[i], "False"))
    /\ UNCHANGED <<procs, health, fs, hookVars>>

\* restart_service without its time.sleep(2)
StopReturn_Mut(i) ==
    /\ inv[i].pc = "stop_ret"
    /\ Set(i, IF inv[i].op = "restart"
              THEN EnterIsr(inv[i], "start")
              ELSE Finish(inv[i], inv[i].stopRet))
    /\ UNCHANGED <<pidFile, procs, health, fs, hookVars>>

\* the return of stop_service(): to __main__ (line 201), or to
\* restart_service (line 160)
StopReturn(i) ==
    /\ inv[i].pc = "stop_ret"
    /\ Set(i, IF inv[i].op = "restart"
              THEN [inv[i] EXCEPT !.pc = "restart_sleep"]
              ELSE Finish(inv[i], inv[i].stopRet))
    /\ UNCHANGED <<pidFile, procs, health, fs, hookVars>>

\* lines 161-162: time.sleep(2); return start_service()
RestartSleep(i) ==
    /\ inv[i].pc = "restart_sleep"
    /\ Set(i, EnterIsr([inv[i] EXCEPT !.ev = Append(@, "delay")], "start"))
    /\ UNCHANGED <<pidFile, procs, health, fs, hookVars>>

----------------------------------------------------------------------------
(* status(), lines 164-181                                                 *)

\* lines 167-171: read_text() of a file that went away after line 167
\* cannot happen in one step; the file is read where it is tested, outside
\* any try
StatusPid(i) ==
    /\ inv[i].pc = "status_pid"
    /\ Set(i, IF pidFile.exists /\ ~PidReadable
              THEN Finish(inv[i], "raised")
              ELSE [inv[i] EXCEPT !.pc = "status_probe"])
    /\ UNCHANGED <<pidFile, procs, health, fs, hookVars>>

\* lines 173-179: every failure of the probe is swallowed
StatusProbe(i) ==
    /\ inv[i].pc = "status_probe"
    /\ Set(i, Finish(inv[i], "None"))
    /\ UNCHANGED <<pidFile, procs, health, fs, hookVars>>

----------------------------------------------------------------------------
(* The environment                                                         *)

\* the invocation's process ends; its slot is free for the next command
Exit(i) ==
    /\ inv[i].pc = "done"
    /\ Set(i, Idle)
    /\ UNCHANGED <<pidFile, procs, health, fs, hookVars>>

\* the health endpoint changes its answer
HealthChange(h) ==
    /\ h # health
    /\ health' = h
    /\ UNCHANGED <<pidFile, procs, inv, fs, hookVars>>

\* a process exits (crash, signal handled late, end of its work)
ProcExit(p) ==
    /\ procs[p] # "none"
    /\ procs' = [procs EXCEPT ![p] = "none"]
    /\ UNCHANGED <<pidFile, health, inv, fs, hookVars>>

\* a process that the manager did not spawn takes a free pid
ProcAppear(p, k) ==
    /\ procs[p] = "none"
    /\ k # "none"
    /\ procs' = [procs EXCEPT ![p] = k]
    /\ UNCHANGED <<pidFile, health, inv, fs, hookVars>>

\* between two commands the PID file is found with other content (left by
\* an earlier session, edited, truncated)
Tamper(t) ==
    /\ \A i \in Invs : inv[i].pc = "idle"
    /\ pidFile # FileWith(t)
    /\ pidFile' = FileWith(t)
    /\ UNCHANGED <<procs, health, inv, fs, hookVars>>

\* between two commands the file system starts or stops failing
FsChange(f) ==
    /\ \A i \in Invs : inv[i].pc = "idle"
    /\ f # fs
    /\ fs' = f
    /\ UNCHANGED <<pidFile, procs, health, inv, hookVars>>

----------------------------------------------------------------------------
(* The notification hooks: notify_autostart.py and notify_chatterbox.py    *)

HookSet(r) == hook' = r /\ UNCHANGED <<tts, spk, obs>>

\* lines 209-216 (notify_autostart.py), 184-192 (notify_chatterbox.py): what
\* event_data holds after standard input was read: {} unless the input
\* parsed as JSON
EventData(d) ==
    CASE d \in {"tty", "empty", "malformed", "object"} -> "dict"
      [] d = "message"    -> "dict_message"
      [] d = "badmessage" -> "dict_badmessage"
      [] OTHER            -> "list"

\* lines 220-254 (notify_autostart.py), 196-232 (notify_chatterbox.py): the
\* message to speak, or "raise" when the selection raises: event_data.get of
\* a list (AttributeError), .lower() of a message that is no string
MessageOf(s, t, e) ==
    CASE e = "list" /\ (s = "chatterbox" \/ t = "SessionStart") -> "raise"
      [] e = "dict_message"    -> "event"
      [] e = "dict_badmessage" -> "raise"
      [] OTHER                 -> "default"

\* the hook script is run with a hook type and a standard input
HookStart(s, t, d, u) ==
    /\ hook.pc = "idle"
    /\ s = "autostart" => u
    /\ HookSet([HookIdle EXCEPT !.pc = "begin", !.script = s, !.hookType = t,
                                !.stdin = d, !.useChatterbox = u])
    /\ UNCHANGED <<pidFile, procs, health, inv, fs>>

\* notify_autostart.py lines 202-207: on SessionStart the service is ensured
HookSession ==
    /\ hook.pc = "begin"
    /\ HookSet([hook EXCEPT !.pc = IF /\ hook.script = "autostart"
                                      /\ hook.hookType = "SessionStart"
                                   THEN "probe" ELSE "stdin"])
    /\ UNCHANGED <<pidFile, procs, health, inv, fs>>

\* ensure_chatterbox_running(), lines 44-59: the quick probe; a service that
\* answers 200 needs no start, a missing manager script allows none
HookQuickProbe ==
    /\ hook.pc = "probe"
    /\ \/ /\ Is200(health)
          /\ HookSet([hook EXCEPT !.pc = "stdin", !.ensured = "True"])
       \/ /\ ~Is200(health)
          /\ HookSet([hook EXCEPT !.pc = "run_manager"])
       \/ /\ ~Is200(health)
          /\ HookSet([hook EXCEPT !.pc = "stdin", !.ensured = "False"])
    /\ UNCHANGED <<pidFile, procs, health, inv, fs>>

\* lines 62-68: subprocess.run([..., MANAGER_SCRIPT, "ensure"], timeout=40)
HookManagerCall ==
    /\ hook.pc = "run_manager"
    /\ Call(HookRunner, "ensure")

\* the exit status of chatterbox_manager.py: __main__ (lines 189-207 there)
\* drops the result of the command, so the status is 0 unless it raised
ReturnCode(result) == IF result = "raised" THEN 1 ELSE 0

\* lines 70-87: the manager has exited; on status 0, time.sleep(2) and the
\* verifying probe: 200 returns True, an exception False, any other answer
\* falls off the end of the function (None)
HookManagerDone ==
    /\ hook.pc = "run_manager"
    /\ inv[HookRunner].pc = "done"
    /\ LET v == IF ReturnCode(inv[HookRunner].result) # 0 THEN "False"
                ELSE IF Is200(health) THEN "True"
                ELSE IF Raises(health) THEN "False"
                ELSE "None" IN
       HookSet([hook EXCEPT !.pc = "stdin", !.ensured = v,
                            !.ev = Append(@, "ensure")])
    /\ inv' = [inv EXCEPT ![HookRunner] = Idle]
    /\ UNCHANGED <<pidFile, procs, health, fs>>

\* lines 89-94: subprocess.run raises: the manager could not be launched,
\* or it is killed after 40 seconds (TimeoutExpired)
HookManagerFails ==
    /\ hook.pc = "run_manager"
    /\ inv[HookRunner].pc # "done"
    /\ HookSet([hook EXCEPT !.pc = "stdin", !.ensured = "False"])
    /\ inv' = [inv EXCEPT ![HookRunner] = Idle]
    /\ UNCHANGED <<pidFile, procs, health, fs>>

\* lines 209-254: read standard input (every failure is swallowed, line 215)
\* and choose the message; an exception of the choice goes to line 265
HookMessage ==
    /\ hook.pc = "stdin"
    /\ LET m == MessageOf(hook.script, hook.hookType, EventData(hook.stdin)) IN
       HookSet(IF m = "raise" THEN [hook EXCEPT !.pc = "caught"]
               ELSE [hook EXCEPT !.pc = "speak", !.message = m])
    /\ UNCHANGED <<pidFile, procs, health, inv, fs>>

\* ElevenLabs speaks as well, whatever ChatterBox answered
HookSpeakChatterbox_Mut(o) ==
    /\ hook.pc = "speak"
    /\ LET probed == hook.script = "chatterbox"
           v == IF probed /\ ~Is200(health) THEN "False"
                ELSE IF o = "ok" THEN "True" ELSE "False" IN
       HookSet(IF ~hook.useChatterbox
               THEN [hook EXCEPT !.pc = "fallback"]
               ELSE [hook EXCEPT !.cb = v, !.pc = "fallback",
                                 !.ev = Append(@, "chatterbox")])
    /\ UNCHANGED <<pidFile, procs, health, inv, fs>>

\* speak_with_chatterbox(): notify_autostart.py posts at once (lines
\* 101-125); notify_chatterbox.py, when USE_CHATTERBOX is set, first probes
\* /health and gives up unless it answers 200 (lines 71-105).  Every
\* exception becomes False.
HookSpeakChatterbox(o) ==
    /\ hook.pc = "speak"
    /\ LET probed == hook.script = "chatterbox"
           v == IF probed /\ ~Is200(health) THEN "False"
                ELSE IF o = "ok" THEN "True" ELSE "False" IN
       HookSet(IF ~hook.useChatterbox
               THEN [hook EXCEPT !.pc = "fallback"]
               ELSE [hook EXCEPT !.cb = v,
                                 !.pc = IF v = "True" THEN "exit"
                                        ELSE "fallback",
                                 !.ev = Append(@, "chatterbox")])
    /\ UNCHANGED <<pidFile, procs, health, inv, fs>>

\* speak_with_elevenlabs(), notify_autostart.py lines 127-192,
\* notify_chatterbox.py lines 107-160: no key, a status other than 200 and
\* every exception become False
HookSpeakElevenLabs(o) ==
    /\ hook.pc = "fallback"
    /\ HookSet([hook EXCEPT !.el = IF o = "ok" THEN "True" ELSE "False",
                            !.pc = "exit",
                            !.ev = Append(@, "elevenlabs")])
    /\ UNCHANGED <<pidFile, procs, health, inv, fs>>

\* sys.exit(0) at the end of the try block of main()
HookExit ==
    /\ hook.pc = "exit"
    /\ HookSet([hook EXCEPT !.pc = "exited", !.exit = "0"])
    /\ UNCHANGED <<pidFile, procs, health, inv, fs>>

\* the exception leaves main() and the script ends with status 1
HookCatch_Mut ==
    /\ hook.pc = "caught"
    /\ HookSet([hook EXCEPT !.pc = "exited", !.exit = "1",
                            !.ev = Append(@, "caught")])
    /\ UNCHANGED <<pidFile, procs, health, inv, fs>>

\* except Exception of main(): log_debug and sys.exit(0)
HookCatch ==
    /\ hook.pc = "caught"
    /\ HookSet([hook EXCEPT !.pc = "exited", !.exit = "0",
                            !.ev = Append(@, "caught")])
    /\ UNCHANGED <<pidFile, procs, health, inv, fs>>

\* the script's process is gone
HookEnd ==
    /\ hook.pc = "exited"
    /\ HookSet(HookIdle)
    /\ UNCHANGED <<pidFile, procs, health, inv, fs>>

----------------------------------------------------------------------------
(* tts_service.py                                                          *)

\* synthesize(), lines 123-187, on a request whose text is there
Synthesize(r) ==
    IF ~r.loaded THEN [r EXCEPT !.status = 503]
    ELSE IF r.text = "empty" THEN [r EXCEPT !.status = 400]
    ELSE IF r.fault = "generate" THEN [r EXCEPT !.status = 500]
    ELSE IF r.fault = "save"
    THEN [r EXCEPT !.status = 500, !.files = {"wav"}]
    ELSE LET q == [r EXCEPT !.files = {"wav"}, !.status = 200,
                            !.attempted = r.play,
                            !.played = r.play /\ r.fault # "play"] IN
         IF r.returnAudio
         THEN [q EXCEPT !.body = "file", !.tasks = {"wav"}]
         ELSE IF ~r.play THEN [q EXCEPT !.body = "path"]
         ELSE [q EXCEPT !.body = "status", !.tasks = {"wav"}]

\* speak(), lines 189-197
Speak(r) == Synthesize([r EXCEPT !.play = TRUE, !.returnAudio = FALSE])

\* elevenlabs_compatible(), lines 199-278: the HTTPException of lines 213
\* and 225 is raised inside the try of line 209 and is an Exception, so
\* line 276 catches it and line 278 answers 500
ElevenLabsCompatible(r) ==
    IF r.text \in {"missing", "empty"} THEN [r EXCEPT !.status = 500]
    ELSE IF ~r.loaded THEN [r EXCEPT !.status = 500]
    ELSE IF r.fault = "generate" THEN [r EXCEPT !.status = 500]
    ELSE IF r.fault = "save"
    THEN [r EXCEPT !.status = 500, !.files = {"wav", "mp3"}]
    ELSE IF r.fault = "ffmpeg"
    THEN [r EXCEPT !.status = 200, !.body = "file", !.files = {"wav"},
                   !.tasks = {"wav"}]
    ELSE [r EXCEPT !.status = 200, !.body = "file",
                   !.files = {"wav", "mp3"}, !.tasks = {"wav", "mp3"}]

\* a request is served up to its response.  A /synthesize or /speak request
\* without text fails the validation of TTSRequest (line 56) before the
\* handler runs
TtsHandle(e, t, l, p, ra, f) ==
    /\ tts.pc = "idle"
    /\ LET r == [TtsIdle EXCEPT !.pc = "responded", !.endpoint = e,
                                !.text = t, !.loaded = l, !.play = p,
                                !.returnAudio = ra, !.fault = f] IN
       tts' = CASE e = "elevenlabs" -> ElevenLabsCompatible(r)
                [] t = "missing"    -> [r EXCEPT !.status = 422]
                [] e = "speak"      -> Speak(r)
                [] OTHER            -> Synthesize(r)
    /\ UNCHANGED <<pidFile, procs, health, inv, fs, hook, spk, obs>>

\* cleanup_file(), lines 68-74, run for every task once the response is out
TtsBackground ==
    /\ tts.pc = "responded"
    /\ tts' = [tts EXCEPT !.pc = "finished", !.files = @ \ tts.tasks,
                          !.tasks = {}]
    /\ UNCHANGED <<pidFile, procs, health, inv, fs, hook, spk, obs>>

\* the next request
TtsEnd ==
    /\ tts.pc = "finished"
    /\ tts' = TtsIdle
    /\ UNCHANGED <<pidFile, procs, health, inv, fs, hook, spk, obs>>

----------------------------------------------------------------------------
(* notification_speaker.py                                                 *)

\* run(), lines 191-204, after __init__ has loaded the cache S (line 42):
\* without a ready service the program returns at once
SpkStart(S) ==
    /\ spk.pc = "off"
    /\ spk' = IF PollReady(health)
              THEN [spk EXCEPT !.pc = "loop", !.spoken = S]
              ELSE [spk EXCEPT !.pc = "stopped"]
    /\ UNCHANGED <<pidFile, procs, health, inv, fs, hook, tts, obs>>

\* monitor_notification_db(), lines 140-171: a child is spawned at line 145
\* and terminated at line 166, which the return of line 162 and the handler
\* of line 168 do not reach
SpkMonitor(path, n) ==
    /\ spk.pc = "loop"
    /\ path \in Unterminated => spk.children < MaxChildren
    /\ spk' = [spk EXCEPT
                 !.pc = "got",
                 !.notif = IF path = "notification" THEN n ELSE NoNotif,
                 !.children = IF path \in Unterminated THEN @ + 1 ELSE @,
                 !.posted = FALSE, !.ok = FALSE]
    /\ UNCHANGED <<pidFile, procs, health, inv, fs, hook, tts, obs>>

\* the mutant of SpkSpeak: the id is recorded whatever the request returned
SpkSpeak_Mut(o) ==
    /\ spk.pc = "got"
    /\ LET n == spk.notif
           send == n.id # 0 /\ n.id \notin spk.spoken /\ ~n.ignored IN
       spk' = [spk EXCEPT
                 !.pc = "loop", !.posted = send, !.ok = send /\ o = "ok",
                 !.spoken = IF send THEN @ \cup {n.id} ELSE @,
                 !.failed = IF send /\ o # "ok" THEN @ \cup {n.id} ELSE @]
    /\ UNCHANGED <<pidFile, procs, health, inv, fs, hook, tts, obs>>

\* run(), lines 212-236, with speak_text() of lines 83-104: the rest of one
\* turn of the loop.  The id and the text of a parsed notification are never
\* empty (lines 180-184)
SpkSpeak(o) ==
    /\ spk.pc = "got"
    /\ LET n == spk.notif
           send == n.id # 0 /\ n.id \notin spk.spoken /\ ~n.ignored
           ok == send /\ o = "ok" IN
       spk' = [spk EXCEPT
                 !.pc = "loop", !.posted = send, !.ok = ok,
                 !.spoken = IF ok THEN @ \cup {n.id} ELSE @,
                 !.failed = IF send /\ ~ok THEN @ \cup {n.id} ELSE @]
    /\ UNCHANGED <<pidFile, procs, health, inv, fs, hook, tts, obs>>

\* handle_shutdown(), lines 49-52, seen by the test of line 206
SpkShutdown ==
    /\ spk.pc = "loop"
    /\ spk' = [spk EXCEPT !.pc = "stopped"]
    /\ UNCHANGED <<pidFile, procs, health, inv, fs, hook, tts, obs>>

\* a child that was not terminated ends by itself (its pipe is closed once
\* the Popen object is dropped, and its next write fails)
SpkChildExit ==
    /\ spk.children > 0
    /\ spk' = [spk EXCEPT !.children = @ - 1]
    /\ UNCHANGED <<pidFile, procs, health, inv, fs, hook, tts, obs>>

----------------------------------------------------------------------------
(* notification_reader.py                                                  *)

\* init(), lines 63-72, and main(), lines 218-223
ObsInit ==
    /\ obs.pc = "off"
    /\ obs' = [obs EXCEPT !.pc = IF PollReady(health) THEN "on" ELSE "exited",
                          !.available = PollReady(health), !.since = 0]
    /\ UNCHANGED <<pidFile, procs, health, inv, fs, hook, tts, spk>>

\* a second passes
ObsTick ==
    /\ obs.pc = "on"
    /\ obs.since <= SERVICE_CHECK_INTERVAL
    /\ obs' = [obs EXCEPT !.since = @ + 1]
    /\ UNCHANGED <<pidFile, procs, health, inv, fs, hook, tts, spk>>

\* the mutant of ObsSpeakText: an exception leaves the gate open
ObsSpeakText_Mut(o) ==
    /\ obs.pc = "on"
    /\ LET due == obs.since > SERVICE_CHECK_INTERVAL
           avail == IF due THEN PollReady(health) ELSE obs.available IN
       obs' = [obs EXCEPT
                 !.turn = 1 - @, !.checked = due,
                 !.reopened = due /\ avail /\ ~obs.available,
                 !.since = IF due THEN 0 ELSE @,
                 !.posted = avail,
                 !.outcome = IF avail THEN o ELSE "-",
                 !.ok = avail /\ o = "ok",
                 !.available = avail,
                 !.raised = @ \/ (avail /\ o \in {"timeout", "exception"})]
    /\ UNCHANGED <<pidFile, procs, health, inv, fs, hook, tts, spk>>

\* speak_text(), lines 101-131, called by main() at line 226 and by
\* handleNotification_() at line 203; o is how the request of line 115 ends
ObsSpeakText(o) ==
    /\ obs.pc = "on"
    /\ LET due == obs.since > SERVICE_CHECK_INTERVAL
           avail == IF due THEN PollReady(health) ELSE obs.available
           raises == avail /\ o \in {"timeout", "exception"} IN
       obs' = [obs EXCEPT
                 !.turn = 1 - @, !.checked = due,
                 !.reopened = due /\ avail /\ ~obs.available,
                 !.since = IF due THEN 0 ELSE @,
                 !.posted = avail,
                 !.outcome = IF avail THEN o ELSE "-",
                 !.ok = avail /\ o = "ok",
                 !.available = avail /\ ~raises,
                 !.raised = @ \/ raises]
    /\ UNCHANGED <<pidFile, procs, health, inv, fs, hook, tts, spk>>

----------------------------------------------------------------------------
(* Specifications                                                          *)

\* the steps of invocation i after its call
Step(i) ==
    \/ IsrExists(i) \/ IsrRead(i) \/ IsrPidExists(i) \/ IsrCmdline(i)
    \/ IsrHealth(i) \/ IsrUnlink(i) \/ IsrDirect(i) \/ IsrReturn(i)
    \/ Spawn(i) \/ SavePid(i) \/ WaitPoll(i) \/ WaitExpire(i)
    \/ StopExists(i) \/ StopRead(i) \/ StopTerm(i) \/ StopGrace(i)
    \/ StopKill(i) \/ StopUnlink(i) \/ StopReturn(i) \/ RestartSleep(i)
    \/ StatusPid(i) \/ StatusProbe(i)

Env ==
    \/ \E h \in Healths : HealthChange(h)
    \/ \E p \in PIDS : ProcExit(p)
    \/ \E p \in PIDS, k \in ProcKinds : ProcAppear(p, k)
    \/ \E t \in FileContents : Tamper(t)

\* commands run one after another
Next ==
    \/ \E i \in SeqInvs, o \in Ops : Call(i, o)
    \/ \E i \in SeqInvs : Step(i)
    \/ \E i \in SeqInvs : Exit(i)
    \/ Env

Spec == Init /\ [][Next]_vars

\* a running invocation goes on to its next statement: every request has a
\* timeout and every sleep is finite
FairSpec == Spec /\ \A i \in SeqInvs : WF_vars(Step(i))

\* the start command alone, called again and again: the steps of
\* start_service(), with the same environment
StartStep(i) ==
    \/ IsrExists(i) \/ IsrRead(i) \/ IsrPidExists(i) \/ IsrCmdline(i)
    \/ IsrHealth(i) \/ IsrUnlink(i) \/ IsrDirect(i) \/ IsrReturn(i)
    \/ Spawn(i) \/ SavePid(i) \/ WaitPoll(i) \/ WaitExpire(i)

StartNext ==
    \/ \E i \in SeqInvs : Call(i, "start")
    \/ \E i \in SeqInvs : StartStep(i)
    \/ \E i \in SeqInvs : Exit(i)
    \/ Env

FairStartSpec ==
    Init /\ [][StartNext]_vars /\ \A i \in SeqInvs : WF_vars(StartStep(i))

\* two start_service()/ensure_running() commands, each a process of its
\* own and run once, interleaved line by line, around a service that does
\* not answer or answers with an error, and whose processes stay
RaceNext ==
    \/ \E i \in Invs, o \in {"start", "ensure"} : Call(i, o)
    \/ \E i \in Invs : StartStep(i)
    \/ \E h \in {"down", "err"} : HealthChange(h)

RaceSpec == Init /\ [][RaceNext]_vars

\* commands run one after another, each to its end, around the service
\* they spawn: its processes exit when they like and its health endpoint
\* answers what it likes
TermNext ==
    \/ \E i \in SeqInvs, o \in Ops : Call(i, o)
    \/ \E i \in SeqInvs : Step(i)
    \/ \E i \in SeqInvs : Exit(i)
    \/ \E h \in Healths : HealthChange(h)
    \/ \E p \in PIDS : ProcExit(p)

FairTermSpec ==
    Init /\ [][TermNext]_vars /\ \A i \in SeqInvs : WF_vars(Step(i))

\* hook scripts run one after another; the manager runs as the subprocess
\* of notify_autostart.py only
HookStep ==
    \/ HookSession \/ HookQuickProbe
    \/ HookManagerCall \/ HookManagerDone \/ HookManagerFails
    \/ HookMessage
    \/ \E o \in Outcomes : HookSpeakChatterbox(o)
    \/ \E o \in ElevenOutcomes : HookSpeakElevenLabs(o)
    \/ HookExit \/ HookCatch \/ HookEnd

HookNext ==
    \/ \E s \in Scripts, t \in HookTypes, d \in StdinKinds, u \in BOOLEAN :
          HookStart(s, t, d, u)
    \/ HookStep
    \/ StartStep(HookRunner)
    \/ \E h \in Healths : HealthChange(h)
    \/ \E p \in PIDS : ProcExit(p)

HookSpec == Init /\ [][HookNext]_vars

\* two commands that look at the record or stop the service, each a process
\* of its own, interleaved line by line
ConcStep(i) ==
    \/ IsrExists(i) \/ IsrRead(i) \/ IsrPidExists(i) \/ IsrCmdline(i)
    \/ IsrHealth(i) \/ IsrUnlink(i) \/ IsrDirect(i) \/ IsrReturn(i)
    \/ StopExists(i) \/ StopRead(i) \/ StopTerm(i) \/ StopGrace(i)
    \/ StopKill(i) \/ StopUnlink(i) \/ StopReturn(i)
    \/ StatusPid(i) \/ StatusProbe(i)

ConcNext ==
    \/ \E i \in Invs, o \in {"is_running", "status", "stop"} : Call(i, o)
    \/ \E i \in Invs : ConcStep(i)
    \/ \E i \in Invs : Exit(i)
    \/ \E h \in {"down", "err", "ready"} : HealthChange(h)
    \/ \E p \in PIDS : ProcExit(p)
    \/ \E p \in PIDS, k \in {"svc", "foreign"} : ProcAppear(p, k)
    \/ \E t \in FileContents : Tamper(t)

ConcSpec == Init /\ [][ConcNext]_vars

\* the notification speaker beside a service that comes and goes
SpeakerNext ==
    \/ \E S \in SUBSET Ids : SpkStart(S)
    \/ \E path \in MonitorPaths, id \in Ids, g \in BOOLEAN :
          SpkMonitor(path, [id |-> id, ignored |-> g])
    \/ \E o \in Outcomes : SpkSpeak(o)
    \/ SpkShutdown
    \/ SpkChildExit
    \/ \E h \in Healths : HealthChange(h)

SpeakerSpec == Init /\ [][SpeakerNext]_vars

\* the notification reader beside a service that comes and goes
ObserverNext ==
    \/ ObsInit
    \/ ObsTick
    \/ \E o \in Outcomes : ObsSpeakText(o)
    \/ \E h \in Healths : HealthChange(h)

ObserverSpec == Init /\ [][ObserverNext]_vars

\* the service serves one request after another
TtsNext ==
    \/ \E e \in Endpoints, t \in TextKinds, l \in BOOLEAN, p \in BOOLEAN,
          ra \in BOOLEAN, f \in Faults : TtsHandle(e, t, l, p, ra, f)
    \/ TtsBackground
    \/ TtsEnd

TtsSpec == Init /\ [][TtsNext]_vars

\* commands run one after another on a file system that may fail
FaultNext ==
    \/ Next
    \/ \E f \in FsStates : FsChange(f)

FaultSpec == Init /\ [][FaultNext]_vars

TypeOK ==
    /\ fs \in FsStates
    /\ pidFile \in {NoFile} \cup {FileWith(t) : t \in FileContents}
    /\ procs \in [PIDS -> ProcKinds]
    /\ health \in Healths
    /\ \A i \in Invs : inv[i].op \in Ops \cup {"-"}
    /\ hook.script \in Scripts \cup {"-"}
    /\ hook.hookType \in HookTypes \cup {"-"}
    /\ hook.stdin \in StdinKinds \cup {"-"}
    /\ hook.exit \in {"-", "0", "1"}
    /\ tts.endpoint \in Endpoints \cup {"-"}
    /\ spk.pc \in {"off", "loop", "got", "stopped"}
    /\ obs.pc \in {"off", "on", "exited"}
    /\ obs.since \in 0..(SERVICE_CHECK_INTERVAL + 1)
    /\ obs.outcome \in Outcomes \cup {"-"}
    /\ spk.spoken \subseteq Ids /\ spk.failed \subseteq Ids
    /\ spk.children \in 0..MaxChildren
    /\ spk.notif.id \in Ids \cup {0}
    /\ tts.files \subseteq {"wav", "mp3"} /\ tts.tasks \subseteq tts.files

----------------------------------------------------------------------------
(* What an invocation has done                                             *)

Happened(r, e) == \E k \in 1..Len(r.ev) : r.ev[k] = e
Count(r, e) == Cardinality({k \in 1..Len(r.ev) : r.ev[k] = e})
Answered200(a) == a \in {"loading", "ready"}

\* the position of the first event e of an invocation (0: none)
First(r, e) ==
    IF Happened(r, e) THEN CHOOSE k \in 1..Len(r.ev) :
                             r.ev[k] = e /\ \A j \in 1..(k - 1) : r.ev[j] # e
    ELSE 0

----------------------------------------------------------------------------
(* Claims                                                                  *)

\* C1 (P1, idempotent ensure): an ensure_running() all of whose health
\* probes were answered 200 returns True and has spawned nothing, whatever
\* the PID file held.
C1_IdempotentEnsure ==
    \A i \in Invs :
        (inv[i].op = "ensure" /\ inv[i].pc = "done" /\ ~inv[i].sawFail)
        => /\ inv[i].result = "True"
           /\ inv[i].proc = 0
           /\ ~Happened(inv[i], "spawn")
           /\ ~Happened(inv[i], "spawn_failed")

\* C1 witness: ensure_running() returned on a responsive service after it
\* found a PID in the file that named no live process.
C1_Witness ==
    \E i \in Invs :
        /\ inv[i].op = "ensure" /\ inv[i].pc = "done"
        /\ ~inv[i].sawFail /\ inv[i].saw200
        /\ inv[i].pidCase = "gone"

\* C2 (cold start): an ensure_running() called with no PID file, whose
\* is_service_running() probes never saw 200 and whose Popen worked, has
\* spawned exactly one process, the PID file holds that process's pid when
\* it returns, and it returns True if a poll saw the model loaded.
C2_ColdStart ==
    \A i \in Invs :
        (/\ inv[i].op = "ensure" /\ inv[i].pc = "done"
         /\ inv[i].noRecord /\ ~inv[i].saw200
         /\ ~Happened(inv[i], "spawn_failed"))
        => /\ Count(inv[i], "spawn") = 1
           /\ inv[i].proc \in PIDS
           /\ pidFile.exists
           /\ ParseInt(pidFile.text) = [ok |-> TRUE, val |-> inv[i].proc]
           /\ (inv[i].sawReady => inv[i].result = "True")

\* C2 witness: the cold ensure_running() that saw the model loaded.
C2_Witness ==
    \E i \in Invs :
        /\ inv[i].op = "ensure" /\ inv[i].pc = "done"
        /\ inv[i].noRecord /\ ~inv[i].saw200
        /\ inv[i].sawReady /\ inv[i].result = "True"

\* C3 as claimed (P2): when the PID of the file names no live process,
\* is_service_running() returns False and the PID file is gone, also when
\* the health endpoint answers 200.
C3_Original ==
    \A i \in Invs :
        (inv[i].pc = "isr_ret" /\ inv[i].pidCase = "gone")
        => inv[i].ret = "False" /\ ~pidFile.exists

\* C3 as amended: when the PID of the file names no live process,
\* is_service_running() removes the PID file, does not probe a tracked
\* service, and returns the result of the probe without a PID: True when
\* it is answered 200, False otherwise.
C3_StalePidCleared ==
    \A i \in Invs :
        (inv[i].pc = "isr_ret" /\ inv[i].pidCase = "gone")
        => /\ ~pidFile.exists
           /\ inv[i].tracked = "-"
           /\ inv[i].direct # "-"
           /\ inv[i].ret = IF Answered200(inv[i].direct) THEN "True"
                           ELSE "False"

\* C3 witness: is_service_running() returns False for a stale PID.
C3_Witness ==
    \E i \in Invs :
        /\ inv[i].pc = "isr_ret" /\ inv[i].pidCase = "gone"
        /\ inv[i].ret = "False" /\ ~pidFile.exists

\* C4 (P3, foreign PID): when the PID of the file is alive and its command
\* line lacks the service signature, is_service_running() makes no probe of
\* a tracked service, removes the PID file, and returns what the probe
\* without a PID gives.
C4_ForeignPidRejected ==
    \A i \in Invs :
        (inv[i].pc = "isr_ret" /\ inv[i].pidCase = "foreign")
        => /\ inv[i].tracked = "-"
           /\ ~pidFile.exists
           /\ inv[i].direct # "-"
           /\ inv[i].ret = IF Answered200(inv[i].direct) THEN "True"
                           ELSE "False"

\* C4 witness: a foreign PID and a service that answers 200 without a PID.
C4_Witness ==
    \E i \in Invs :
        /\ inv[i].pc = "isr_ret" /\ inv[i].pidCase = "foreign"
        /\ inv[i].ret = "True" /\ Answered200(inv[i].direct)

\* C5 as claimed (P4): when the PID of the file is alive and is the
\* service, and its health probe fails (an exception or a non-200 answer),
\* is_service_running() returns False and the PID file still holds the PID.
C5_Original ==
    \A i \in Invs :
        (/\ inv[i].pc = "isr_ret" /\ inv[i].pidCase = "ours"
         /\ inv[i].tracked # "-" /\ ~Answered200(inv[i].tracked))
        => /\ inv[i].ret = "False"
           /\ pidFile.exists
           /\ ParseInt(pidFile.text) = [ok |-> TRUE, val |-> inv[i].pid]

\* C6 (P5, start waits for readiness), under FairStartSpec: a
\* start_service() that has spawned returns True only after a poll saw 200
\* with the model loaded, and False only when the 30 s of the timeout have
\* passed; the wait is left only on a ready answer or on the timeout, so an
\* answer of 200 without model_loaded does not end it; and the wait always
\* ends.
C6_StartWaitsForReadiness ==
    /\ [](\A i \in Invs :
            (inv[i].pc = "done" /\ Happened(inv[i], "save"))
            => /\ inv[i].result \in {"True", "False"}
               /\ (inv[i].result = "True" => inv[i].sawReady)
               /\ (inv[i].result = "False"
                     => inv[i].elapsed >= WAIT_TIMEOUT * TicksPerSecond))
    /\ [][\A i \in Invs :
            (inv[i].pc = "wait" /\ inv'[i].pc # "wait")
            => \/ health = "ready"
               \/ inv[i].elapsed >= WAIT_TIMEOUT * TicksPerSecond]_vars
    /\ \A i \in Invs : (inv[i].pc = "wait") ~> (inv[i].pc = "done")

\* C6 witness: start_service() has returned False after polling until the
\* timeout; its last poll was not too late to start.
C6_Witness ==
    \E i \in Invs :
        /\ inv[i].pc = "done" /\ Happened(inv[i], "save")
        /\ inv[i].result = "False" /\ ~inv[i].sawReady
        /\ inv[i].elapsed >= WAIT_TIMEOUT * TicksPerSecond

\* C7 as claimed (P6): when stop_service() has parsed a PID from the file
\* and returns, the PID file is gone, on every path.
C7_Original ==
    \A i \in Invs :
        (inv[i].pc = "stop_ret" /\ inv[i].pid # 0) => ~pidFile.exists

\* C8 (P7, restart ordering): in restart_service() every attempt to spawn
\* comes after stop_service() has returned (whatever it returned) and after
\* the delay that follows it; all signals of the invocation come before
\* stop_service() returns.
C8_RestartOrdering ==
    \A i \in Invs :
        inv[i].op = "restart" =>
            \A k \in 1..Len(inv[i].ev) :
                /\ inv[i].ev[k] \in {"spawn", "spawn_failed"}
                     => /\ 0 < First(inv[i], "stop_end")
                        /\ First(inv[i], "stop_end") < First(inv[i], "delay")
                        /\ First(inv[i], "delay") < k
                        /\ inv[i].stopRet \in {"True", "False"}
                /\ inv[i].ev[k] \in {"term", "grace", "kill"}
                     => ~\E j \in 1..(k - 1) :
                           inv[i].ev[j] \in {"stop_end", "delay", "spawn",
                                             "spawn_failed", "save"}

\* C8 witness: a restart that sent both signals, ended its stop sequence,
\* slept, then spawned.
C8_Witness ==
    \E i \in Invs :
        /\ inv[i].op = "restart"
        /\ inv[i].ev = <<"term", "grace", "kill", "stop_end", "delay", "spawn">>

\* C9 (outcomes of start_service): True is returned only if a poll saw the
\* model loaded or is_service_running() saw the service; a process that was
\* launched and not seen ready gives False; a Popen that failed gives
\* neither True nor False, so the two are told apart.
C9_StartOutcomes ==
    \A i \in Invs :
        (inv[i].op = "start" /\ inv[i].pc = "done")
        => /\ (inv[i].result = "True" => inv[i].sawReady \/ inv[i].saw200)
           /\ (Happened(inv[i], "spawn") /\ ~inv[i].sawReady
                 => inv[i].result = "False")
           /\ (Happened(inv[i], "spawn_failed")
                 => inv[i].result \notin {"True", "False"})

\* C9 witness: start_service() returned False for a launched process.
C9_Witness ==
    \E i \in Invs :
        /\ inv[i].op = "start" /\ inv[i].pc = "done"
        /\ Happened(inv[i], "spawn") /\ inv[i].result = "False"

\* C10 as claimed (spawn failure): when Popen fails, start_service(),
\* ensure_running() and restart_service() return a failure result (False),
\* have tried to spawn once, and have written no PID.
C10_Original ==
    \A i \in Invs :
        (inv[i].pc = "done" /\ Happened(inv[i], "spawn_failed"))
        => /\ inv[i].result = "False"
           /\ Count(inv[i], "spawn_failed") = 1
           /\ ~Happened(inv[i], "spawn")
           /\ ~Happened(inv[i], "save")


----------------------------------------------------------------------------
\* C11: no internal error escapes: whatever the file system (PID record
\* unreadable, unwritable or removed, activity log unwritable) and the health
\* endpoint do, a command that ends returns a result and does not end with
\* an uncaught exception.  The failure of Popen is C10's and is set aside.
\* Violated: an unwritable activity log makes the first log() of start, stop
\* and restart raise, an unwritable PID record makes line 109 raise.
C11_Original ==
    \A i \in Invs :
        (inv[i].pc = "done" /\ ~Happened(inv[i], "spawn_failed"))
        => inv[i].result # "raised"

\* C12: when stop_service() finds a PID record that cannot be parsed as an
\* integer or cannot be read, it reports the failure (False) and the record
\* is gone when it returns.  Violated: lines 153-155 log and return False,
\* nothing unlinks the record.
C12_Original ==
    \A i \in Invs :
        (inv[i].pc = "stop_ret" /\ ~inv[i].noRecord /\ inv[i].pid = 0)
        => /\ inv[i].stopRet = "False"
           /\ ~pidFile.exists

\* C13: a PID record that cannot be read or is not an integer counts as no
\* record: is_service_running() deletes it and answers what the probe without
\* a PID answers (lines 59-70); when no probe of ensure_running() is answered,
\* the command then spawns once and saves the PID of the new process, and no
\* process is signalled or looked up on the way.
C13_CorruptRecordIsNoRecord ==
    \A i \in Invs :
        /\ (inv[i].pc = "isr_ret" /\ inv[i].pidCase = "corrupt")
           => /\ ~pidFile.exists
              /\ inv[i].direct \in Healths
              /\ inv[i].tracked = "-"
              /\ inv[i].ret = (IF Answered200(inv[i].direct) /\ LogOK
                               THEN "True" ELSE "False")
        /\ (/\ inv[i].op = "ensure" /\ Happened(inv[i], "corrupt")
            /\ inv[i].pc = "wait")
           => /\ Count(inv[i], "spawn") = 1
              /\ First(inv[i], "corrupt") < First(inv[i], "spawn")
              /\ ParseInt(pidFile.text) = [ok |-> TRUE, val |-> inv[i].proc]
              /\ pidFile.exists
        /\ (/\ inv[i].op = "ensure" /\ Happened(inv[i], "corrupt")
            /\ ~inv[i].saw200 /\ inv[i].pc = "done"
            /\ inv[i].result \in {"True", "False"})
           => Count(inv[i], "spawn") = 1 /\ Count(inv[i], "save") = 1

\* ensure_running() found the text "1x" in the PID file and the service
\* down, and has saved the PID of the process it spawned
C13_Witness ==
    \E i \in Invs :
        /\ inv[i].op = "ensure" /\ Happened(inv[i], "corrupt")
        /\ ~inv[i].saw200 /\ inv[i].pc = "done"
        /\ inv[i].result = "True"
        /\ Count(inv[i], "save") = 1
        /\ pidFile = FileWith(IntToStr(inv[i].proc))
        /\ fs = "ok"

\* C14: whenever is_service_running() returns, to __main__, status(),
\* ensure_running() or start_service(), and the PID record is present, the
\* record holds the PID the call read, and the call found that PID to be a
\* live process with the service's command line; when the call found the
\* process gone, foreign or inaccessible, or the record corrupt, the record
\* is absent.
C14_PersistedPidInvariant ==
    \A i \in Invs :
        inv[i].pc = "isr_ret"
        => /\ pidFile.exists
              => /\ inv[i].pidCase = "ours"
                 /\ inv[i].pid \in PIDS
                 /\ ParseInt(pidFile.text) = [ok |-> TRUE, val |-> inv[i].pid]
                 /\ inv[i].tracked \in {"down", "loading", "ready"}
           /\ inv[i].pidCase \in {"gone", "foreign", "denied", "corrupt"}
              => ~pidFile.exists

\* status() has called is_service_running() on the record of a live service
\* process, which returns with the record kept
C14_Witness ==
    \E i \in Invs :
        /\ inv[i].op = "status" /\ inv[i].pc = "isr_ret"
        /\ pidFile.exists /\ inv[i].pidCase = "ours"
        /\ procs[inv[i].pid] = "svc"

\* C15: with no PID record and a writable activity log, is_service_running()
\* returns True exactly when the probe of lines 62-66 is answered 200, it
\* looks at no process, and there is no PID record when it returns; neither
\* is there one when is_service_running(), status() or ensure_running(),
\* called with no record, end without having spawned.
C15_ExternalNotAdopted ==
    \A i \in Invs :
        /\ (inv[i].pc = "isr_ret" /\ inv[i].pidCase = "nofile")
           => /\ inv[i].ret = "True" <=> Answered200(inv[i].direct)
              /\ inv[i].ret \in {"True", "False"}
              /\ inv[i].tracked = "-" /\ inv[i].pid = 0
              /\ ~pidFile.exists
        /\ (/\ inv[i].op \in {"is_running", "status", "ensure"}
            /\ inv[i].noRecord /\ inv[i].pc = "done"
            /\ ~Happened(inv[i], "spawn"))
           => ~pidFile.exists

\* ensure_running(), called with no PID record while a service started by
\* someone else answers, has returned True without spawning and without a
\* record
C15_Witness ==
    \E i \in Invs :
        /\ inv[i].op = "ensure" /\ inv[i].noRecord /\ inv[i].pc = "done"
        /\ inv[i].result = "True" /\ inv[i].saw200
        /\ ~Happened(inv[i], "spawn")
        /\ ~pidFile.exists

\* C16: stop_service() called with no PID record returns False, has sent
\* neither SIGTERM nor SIGKILL, has read no PID, and leaves the record
\* absent; the step that finds no record changes neither the process table
\* nor the PID file, whatever the health endpoint answers.
C16_StopWithoutRecord ==
    /\ [](\A i \in Invs :
            /\ (inv[i].pc = "stop_ret" /\ inv[i].noRecord)
               => /\ inv[i].stopRet = "False"
                  /\ ~Happened(inv[i], "term") /\ ~Happened(inv[i], "kill")
                  /\ inv[i].pid = 0
                  /\ ~pidFile.exists
            /\ (inv[i].op = "stop" /\ inv[i].pc = "done" /\ inv[i].noRecord)
               => inv[i].result = "False" /\ ~pidFile.exists)
    /\ [][\A i \in Invs :
            (/\ inv[i].pc = "stop_exists" /\ ~pidFile.exists
             /\ inv'[i] # inv[i])
            => /\ procs' = procs /\ pidFile' = pidFile
               /\ inv'[i].pc = "stop_ret"]_vars

\* stop_service() has returned False for want of a record while a service
\* started by someone else answers the health endpoint
C16_Witness ==
    \E i \in Invs :
        /\ inv[i].op = "stop" /\ inv[i].pc = "stop_ret" /\ inv[i].noRecord
        /\ inv[i].stopRet = "False"
        /\ Is200(health)
        /\ \E p \in PIDS : procs[p] = "svc"

\* C17: two start_service()/ensure_running() commands that run at the same
\* time share one PID record and the last writer wins: every write of line
\* 109 replaces the record by the PID of the writer's own process, whatever
\* was there, and once both commands have written, the record holds the PID
\* of one of the two processes only.  (That both can spawn is C17_Witness.)
C17_AcceptedStartRace ==
    /\ [][\A i \in Invs :
            (inv[i].pc = "save_pid" /\ inv'[i].pc = "wait")
            => /\ pidFile' = FileWith(IntToStr(inv[i].proc))
               /\ procs' = procs]_vars
    /\ [](\A i, j \in Invs :
            (/\ i # j
             /\ Happened(inv[i], "save") /\ Happened(inv[j], "save"))
            => /\ pidFile.exists
               /\ ParseInt(pidFile.text).ok
               /\ ParseInt(pidFile.text).val \in {inv[i].proc, inv[j].proc}
               /\ inv[i].proc # inv[j].proc
                  => \E p \in {inv[i].proc, inv[j].proc} :
                        /\ procs[p] = "svc"
                        /\ ParseInt(pidFile.text).val # p)

\* both commands passed the check while the service was down, both spawned:
\* two service processes are alive and the record names the one of the
\* command that wrote last; the other is in no record
C17_Witness ==
    \E i, j \in Invs :
        /\ i # j
        /\ Count(inv[i], "spawn") = 1 /\ Count(inv[j], "spawn") = 1
        /\ Happened(inv[i], "save") /\ Happened(inv[j], "save")
        /\ ~inv[i].saw200 /\ ~inv[j].saw200
        /\ inv[i].proc # inv[j].proc
        /\ procs[inv[i].proc] = "svc" /\ procs[inv[j].proc] = "svc"
        /\ pidFile = FileWith(IntToStr(inv[j].proc))
        /\ Cardinality({p \in PIDS : procs[p] = "svc"}) = 2

\* C18: every command that was called reaches its return, whatever the
\* health endpoint answers or fails to answer and whether or not the process
\* exits on SIGTERM, and the clock of wait_for_service() never passes its
\* timeout by more than one request and one sleep.
C18_Terminates ==
    /\ \A i \in SeqInvs : (inv[i].pc # "idle") ~> (inv[i].pc = "done")
    /\ [](\A i \in Invs :
            inv[i].elapsed < WaitTimeoutTicks + PollRequestTicks + SLEEP_TICKS)

\* restart_service() has returned although the process was still there two
\* seconds after SIGTERM and no probe of the new service was ever answered
\* ready in the thirty seconds of the wait
C18_Witness ==
    \E i \in Invs :
        /\ inv[i].op = "restart" /\ inv[i].pc = "done"
        /\ Happened(inv[i], "kill")
        /\ ~inv[i].saw200 /\ ~inv[i].sawReady
        /\ inv[i].elapsed >= WaitTimeoutTicks
        /\ inv[i].result = "False"

\* C20: no second spawn during a slow start-up: start_service() and
\* ensure_running() never spawn a process while the PID record names a live
\* service process, so that the record of a live service is never
\* overwritten.  Violated: when the probe of the recorded process raises
\* (connection refused before the service listens), line 53 returns False
\* with the record kept, and start_service() goes on to Popen and line 109.
C20_Original ==
    \A i \in Invs :
        inv[i].pc = "save_pid"
        => ~(/\ pidFile.exists
             /\ ParseInt(pidFile.text).ok
             /\ ParseInt(pidFile.text).val \in PIDS
             /\ ParseInt(pidFile.text).val # inv[i].proc
             /\ procs[ParseInt(pidFile.text).val] = "svc")

\* C19: a hook script that has ended has ended with exit status 0, whatever
\* its hook type and standard input were and however the start of the
\* service, the ChatterBox request and the ElevenLabs request went; and it
\* ends nowhere but at the two sys.exit(0) of main().
C19_HooksExitZero ==
    /\ [](hook.pc = "exited" => hook.exit = "0")
    /\ [](hook.exit # "-" => hook.pc = "exited")
    /\ [][hook'.pc = "exited" /\ hook.pc # "exited"
          => hook.pc \in {"exit", "caught"}]_vars

\* notify_chatterbox.py was given JSON that is no object: the choice of the
\* message raised and the script ended with status 0 without speaking
C19_Witness ==
    /\ hook.pc = "exited" /\ hook.exit = "0"
    /\ hook.script = "chatterbox" /\ hook.stdin = "array"
    /\ Happened(hook, "caught")
    /\ hook.cb = "-" /\ hook.el = "-"

\* C21: stop_service() and restart_service() signal the service only: every
\* SIGTERM and SIGKILL that is delivered is delivered to a process whose
\* command line is the service's, never to a foreign process that has the
\* recorded PID.  Violated: stop_service() reads the PID and calls os.kill
\* (lines 128-133) without looking at the process.
C21_Original ==
    [][\A i \in Invs :
         (/\ inv[i].pc \in {"stop_term", "stop_kill"}
          /\ Len(inv'[i].ev) = Len(inv[i].ev) + 1
          /\ inv'[i].ev[Len(inv'[i].ev)] \in {"term", "kill"})
         => procs[inv[i].pid] = "svc"]_vars

\* C22: in stop_service() SIGKILL comes after SIGTERM and the two seconds of
\* grace, at most once, and only when the re-check of line 141 found the
\* process; when os.kill(pid, SIGTERM) finds no process, nothing is
\* signalled, the record is removed and True is returned.
C22_GracefulThenForced ==
    /\ [](\A i \in Invs :
            /\ Happened(inv[i], "kill")
               => /\ Count(inv[i], "term") = 1 /\ Count(inv[i], "kill") = 1
                  /\ Count(inv[i], "grace") = 1
                  /\ First(inv[i], "term") < First(inv[i], "grace")
                  /\ First(inv[i], "grace") < First(inv[i], "kill")
            /\ inv[i].pc = "stop_kill" => Happened(inv[i], "grace")
            /\ (/\ inv[i].pc = "stop_ret" /\ inv[i].pid # 0
                /\ ~Happened(inv[i], "term") /\ inv[i].stopRet = "True")
               => ~Happened(inv[i], "kill") /\ ~pidFile.exists)
    /\ [][\A i \in Invs :
            /\ (inv[i].pc = "stop_grace" /\ inv'[i].pc = "stop_kill")
               => PidExists(inv[i].pid)
            /\ (inv[i].pc = "stop_grace" /\ inv'[i].pc = "stop_unlink")
               => ~PidExists(inv[i].pid)
            /\ (/\ inv[i].pc = "stop_term" /\ ~PidExists(inv[i].pid)
                /\ inv'[i] # inv[i])
               => /\ inv'[i].pc = "stop_unlink"
                  /\ inv'[i].ev = inv[i].ev
                  /\ procs' = procs]_vars

\* the process was still there two seconds after SIGTERM: stop_service() has
\* sent SIGKILL as well, removed the record and returned True
C22_Witness ==
    \E i \in Invs :
        /\ inv[i].op = "stop" /\ inv[i].pc = "stop_ret"
        /\ inv[i].ev = <<"term", "grace", "kill", "stop_end">>
        /\ inv[i].stopRet = "True" /\ ~pidFile.exists

\* C23: start_service() saves the PID of the process it spawned right after
\* the spawn and before the first poll of wait_for_service(): the record
\* reads back as that PID all through the wait, and when the wait times out
\* the record is still there and the process has been sent no signal.
C23_PidSavedBeforePolling ==
    /\ [](\A i \in Invs :
            /\ inv[i].pc = "save_pid"
               => /\ inv[i].elapsed = 0 /\ ~inv[i].sawReady
                  /\ inv[i].ev[Len(inv[i].ev)] = "spawn"
                  /\ inv[i].proc \in PIDS
            /\ inv[i].pc = "wait"
               => /\ pidFile.exists
                  /\ ParseInt(pidFile.text) = [ok |-> TRUE, val |-> inv[i].proc]
                  /\ First(inv[i], "save") = First(inv[i], "spawn") + 1
            /\ (/\ inv[i].pc = "done" /\ inv[i].result = "False"
                /\ Happened(inv[i], "save"))
               => /\ pidFile.exists
                  /\ ParseInt(pidFile.text) = [ok |-> TRUE, val |-> inv[i].proc]
                  /\ \A k \in (First(inv[i], "spawn") + 1)..Len(inv[i].ev) :
                        inv[i].ev[k] \notin {"term", "kill"})
    /\ [][\A i \in Invs :
            (inv[i].pc = "wait" /\ inv'[i].pc = "done")
            => procs' = procs /\ pidFile' = pidFile]_vars

\* the thirty seconds have passed without a ready answer: start_service()
\* has returned False, the record names the process it spawned, and the
\* process is alive
C23_Witness ==
    \E i \in Invs :
        /\ inv[i].op = "start" /\ inv[i].pc = "done"
        /\ inv[i].result = "False" /\ inv[i].elapsed >= WaitTimeoutTicks
        /\ pidFile = FileWith(IntToStr(inv[i].proc))
        /\ procs[inv[i].proc] = "svc"

\* C24: two commands that run at the same time do not crash each other:
\* whatever the interleaving, a command that ends returns a result and does
\* not end with an uncaught exception.  Violated: when the other command
\* removes the record between line 37 and line 57 (or 39), unlink raises
\* FileNotFoundError, line 58 catches it and line 59 raises it again.
C24_Original ==
    \A i \in Invs :
        inv[i].pc = "done" => inv[i].result # "raised"

\* C25: in a hook run ElevenLabs is tried only after speak_with_chatterbox()
\* returned False, or, in notify_chatterbox.py, when USE_CHATTERBOX is off;
\* never after it returned True; and each of the two is tried at most once.
C25_FallbackOrdering ==
    /\ Count(hook, "chatterbox") <= 1 /\ Count(hook, "elevenlabs") <= 1
    /\ Happened(hook, "chatterbox") <=> hook.cb \in {"True", "False"}
    /\ Happened(hook, "elevenlabs") <=> hook.el \in {"True", "False"}
    /\ hook.cb = "True" => ~Happened(hook, "elevenlabs") /\ hook.pc # "fallback"
    /\ (Happened(hook, "elevenlabs") \/ hook.pc = "fallback")
       => \/ /\ hook.cb = "False"
             /\ Happened(hook, "elevenlabs")
                => First(hook, "elevenlabs") = First(hook, "chatterbox") + 1
          \/ /\ hook.script = "chatterbox" /\ ~hook.useChatterbox
             /\ hook.cb = "-"
    /\ ~hook.useChatterbox => ~Happened(hook, "chatterbox")

\* the ChatterBox request failed and the ElevenLabs request that followed
\* it succeeded
C25_Witness ==
    /\ hook.pc = "exited"
    /\ hook.ev = <<"ensure", "chatterbox", "elevenlabs">>
    /\ hook.cb = "False" /\ hook.el = "True"

\* C26: POST /v1/text-to-speech/{voice_id} answers 400 when the text is
\* missing or empty, 503 when the model is not loaded, and 500 only when
\* the synthesis itself fails.  Violated: the HTTPException of lines 213 and
\* 225 is caught at line 276 and answered as 500.
C26_Original ==
    (tts.pc = "responded" /\ tts.endpoint = "elevenlabs")
    => /\ tts.text \in {"missing", "empty"} => tts.status = 400
       /\ (tts.text = "text" /\ ~tts.loaded) => tts.status = 503
       /\ tts.status = 500 => tts.fault \in {"generate", "save"}

\* C27: POST /speak tries to play whatever the play and return_audio fields
\* of the request say, returns neither an audio file nor a path, and every
\* temporary file it created is gone once the request is over.  Violated:
\* when torchaudio.save raises (line 149), the file of line 145 stays.
C27_Original ==
    (tts.endpoint = "speak" /\ tts.pc = "finished")
    => /\ tts.files = {}
       /\ tts.body \notin {"file", "path"}
       /\ tts.status = 200 => tts.attempted

\* C28: in NotificationSpeaker.run() a notification whose id is in
\* spoken_ids is not sent to the service, an id enters spoken_ids only in a
\* turn whose speak request for it returned True, and a failed request
\* leaves spoken_ids as it was; no id ever leaves spoken_ids.
C28_AtMostOnce ==
    [][(spk.pc = "got" /\ spk'.pc = "loop")
       => /\ spk'.posted => spk.notif.id \in Ids \ spk.spoken
          /\ spk.spoken \subseteq spk'.spoken
          /\ spk'.spoken # spk.spoken
               => /\ spk'.posted /\ spk'.ok
                  /\ spk'.spoken = spk.spoken \cup {spk.notif.id}
          /\ (spk'.posted /\ ~spk'.ok) => spk'.spoken = spk.spoken]_vars

\* a notification whose request failed earlier has now been spoken
C28_Witness ==
    /\ spk.pc = "loop" /\ spk.posted /\ spk.ok
    /\ spk.notif.id \in spk.failed /\ spk.notif.id \in spk.spoken

\* C30: when monitor_notification_db() has returned, no 'log stream' child
\* that it spawned is alive, on every path.  Violated: the return of line
\* 162 and the handler of line 168 leave the function without
\* process.terminate() of line 166.
C30_Original == spk.pc = "got" => spk.children = 0

\* C29: in NotificationObserver.speak_text() the health check runs only
\* when more than 30 seconds have passed since the last one; a /speak request
\* is sent only through an open gate (open before the call, or opened by the
\* check of this call answering 200 with model_loaded true); a request that
\* raises closes the gate; a non-200 answer returns False and leaves the
\* gate open; and the gate changes in no other way.
C29_AvailabilityGate ==
    [][(obs.pc = "on" /\ obs'.turn # obs.turn)
       => /\ obs'.checked => (obs.since > SERVICE_CHECK_INTERVAL
                              /\ obs'.since = 0)
          /\ obs'.posted => IF obs'.checked THEN PollReady(health)
                            ELSE obs.available
          /\ (obs'.posted /\ obs'.outcome \in {"timeout", "exception"})
               => ~obs'.available /\ ~obs'.ok
          /\ (obs'.posted /\ obs'.outcome = "http_error")
               => obs'.available /\ ~obs'.ok
          /\ (~obs.available /\ ~obs'.checked)
               => ~obs'.posted /\ ~obs'.available]_vars

\* a request that raised closed the gate, a later check has opened it again
\* and the request of that call was answered
C29_Witness ==
    obs.raised /\ obs.reopened /\ obs.checked /\ obs.posted /\ obs.ok

====
